---------------------------- MODULE Spec2Model ----------------------------
(***************************************************************************)
(* A model of Emergence (src/main.py): the placement loop that lays out    *)
(* the hexagons, chooseNext / jumppoint / Hex.genPoints (the chaos game),  *)
(* the progressive render loop and the zoom keys of the viewer loop.       *)
(*                                                                         *)
(* Random draws (random.randint, random.choice, random.random) are         *)
(* nondeterministic choices.  The display size read from the operating     *)
(* system is an input.                                                     *)
(*                                                                         *)
(* Numbers.  Anchor coordinates are Python floats or ints whose values are *)
(* multiples of 1/2 (the seed is width/2 - 400); the model stores them     *)
(* multiplied by Scale.  The products Hex.d*cos(a), Hex.d*sin(a) are IEEE  *)
(* doubles; each is given in thousandths together with the sign and size   *)
(* of what separates the double from a whole number when it is within      *)
(* 1e-12 of one (see Offset), and AddInt computes int(p + offset) from     *)
(* these as double addition followed by truncation toward zero does.       *)
(***************************************************************************)
EXTENDS Integers, Sequences, FiniteSets, TLC

VARIABLES
    \* the placement loop (lines 45, 75, 199-217)
    width, height, coords, count, i, coord, pc,
    \* one call of chooseNext (lines 160-181): its arguments (lenPoints is
    \* len(points)) and its outcome
    lenPoints, prevChoice, rules, override, pointIndex, cpc,
    \* one Hex under construction (lines 82-129): its fields, and the index of
    \* the loop of genPoints
    self_polyverts, self_rules, self_factor, self_override, self_prevChoice,
    self_currentPoint, self_points, genI, gpc,
    \* the render loop (lines 220-249): len(hexes), the loop's variables, the
    \* index of the batch's for loop, and each Hex's pointIndex
    numHexes, currentHex, itrs_left, batchI, self_pointIndex, rpc,
    \* the viewer loop (lines 259-303): the class attributes Hex.r and Hex.d,
    \* the pan step and shifts, and each Hex's anchor and surface side
    Hex_r, Hex_d, walk_speed, xshift, yshift, hex_xy, surface, vpc

placeVars == <<width, height, coords, count, i, coord, pc>>
chooseVars == <<lenPoints, prevChoice, rules, override, pointIndex, cpc>>
hexVars == <<self_polyverts, self_rules, self_factor, self_override,
             self_prevChoice, self_currentPoint, self_points, genI, gpc>>
renderVars == <<numHexes, currentHex, itrs_left, batchI, self_pointIndex, rpc>>
viewVars == <<Hex_r, Hex_d, walk_speed, xshift, yshift, hex_xy, surface, vpc>>
vars == <<placeVars, chooseVars, hexVars, renderVars, viewVars>>

-----------------------------------------------------------------------------
(* Arithmetic helpers *)

Abs(a) == IF a < 0 THEN -a ELSE a

Sign(a) == IF a < 0 THEN -1 ELSE IF a > 0 THEN 1 ELSE 0

\* Python's int() of the real number num/den (den > 0): truncation toward zero.
Trunc(num, den) == IF num >= 0 THEN num \div den ELSE -((-num) \div den)

-----------------------------------------------------------------------------
(* Program constants and inputs *)

\* Coordinates are stored multiplied by Scale: width/2 (line 75) has halves.
Scale == 2

\* Hex.r and Hex.d = 2.5*r (class attributes).
HexR == 100
HexD == 250

\* random.randint(7, 15)
MinCount == 7
MaxCount == 15

\* The collision tolerance of sorta.
Tolerance == 10

\* (GetSystemMetrics(0), GetSystemMetrics(1)): the display sizes the model runs
\* on.  900 x 900 puts the seed on the corner (0, 0) of the view; 899 x 901
\* gives the seed (-0.5, 0.5), left of the view and with halves.
Displays == {<<900, 900>>, <<899, 901>>}

\* The indices of angles.
Directions == 0 .. 5

\* Hex.d*cos(angles[k]) and Hex.d*sin(angles[k]) as the doubles Python computes:
\* milli is the value in thousandths (truncated), eps the sign of
\* (double - nearest whole number) when the double is within 1e-12 of a whole
\* number and differs from it, and e53 that difference's size in units of
\* 2^-53 (truncated).
\*   k   d*cos                    d*sin
\*   0   216.50635094610968       124.99999999999999   (125 - 2^-46)
\*   1   1.5308084989341916e-14   250.0
\*   2   -216.50635094610968      124.99999999999999
\*   3   -216.5063509461097       -124.99999999999993  (-125 + 5*2^-46)
\*   4   -4.5924254968025744e-14  -250.0
\*   5   216.5063509461096        -125.00000000000011  (-125 - 8*2^-46)
Off(m, s, e) == [milli |-> m, eps |-> s, e53 |-> e]

Offset ==
    [k \in Directions |->
        CASE k = 0 -> [x |-> Off(216506, 0, 0),  y |-> Off(125000, -1, 128)]
          [] k = 1 -> [x |-> Off(0, 1, 137),      y |-> Off(250000, 0, 0)]
          [] k = 2 -> [x |-> Off(-216506, 0, 0), y |-> Off(125000, -1, 128)]
          [] k = 3 -> [x |-> Off(-216506, 0, 0), y |-> Off(-125000, 1, 640)]
          [] k = 4 -> [x |-> Off(0, -1, 413),     y |-> Off(-250000, 0, 0)]
          [] k = 5 -> [x |-> Off(216506, 0, 0),  y |-> Off(-125000, -1, 1024)]]

\* The largest power of two strictly below e (e > 1), from p upward.
RECURSIVE Pow2Below(_, _)
Pow2Below(e, p) == IF 2 * p < e THEN Pow2Below(e, 2 * p) ELSE p

\* A whole number m > 0 minus a difference of e53 * 2^-53 rounds (to nearest,
\* ties to even) to a double below m exactly when the difference exceeds half
\* the spacing of the doubles below m, that is when m <= RoundLimit(e53).
RoundLimit(e53) == 2 * Pow2Below(e53, 1)

\* int(p + off): p is a stored coordinate (Scale * value), the result too.
AddInt(p, off) ==
    LET sumMilli == p * (1000 \div Scale) + off.milli
        m == sumMilli \div 1000
    IN  IF sumMilli % 1000 # 0 \/ off.eps = 0
        THEN Scale * Trunc(sumMilli, 1000)
        ELSE IF m = 0 \/ Sign(m) = off.eps \/ Abs(m) > RoundLimit(off.e53)
             THEN Scale * m
             ELSE Scale * (m - Sign(m))

\* intTuple(newCoords) of chooseNextSpot, for the drawn angle angles[k].
chooseNextSpot(prevCoords, k) ==
    <<AddInt(prevCoords[1], Offset[k].x), AddInt(prevCoords[2], Offset[k].y)>>

\* sorta(l, r)
sorta(l, r) ==
    /\ Abs(l[1] - r[1]) < Tolerance * Scale
    /\ Abs(l[2] - r[2]) < Tolerance * Scale

\* (the for loop comparing the candidate with the latest anchor only)
FoundLatestOnly(cs, c) == sorta(cs[Len(cs)], c)

\* The for loop over coords that sets found.
Found(cs, c) == \E j \in 1 .. Len(cs) : sorta(cs[j], c)

\* (the view test without its two comparisons with 0)
OutOfViewFarSideOnly(c) == c[1] > width * Scale \/ c[2] > height * Scale

\* The test that ends the placement (line 216).
OutOfView(c) ==
    \/ c[1] > width * Scale
    \/ c[1] < 0
    \/ c[2] > height * Scale
    \/ c[2] < 0

\* (coords[0] in place of coords[-1])
FirstAnchor == coords[1]

\* coords[-1]
PrevAnchor == coords[Len(coords)]

\* coords = [(width/2 - 400, height/2 - 400)]
SeedAnchor(w, h) == <<(w * Scale) \div 2 - 400 * Scale, (h * Scale) \div 2 - 400 * Scale>>

-----------------------------------------------------------------------------
(* The placement loop *)

\* The module level before the placement loop, on one of the displays.
PlaceInit ==
    /\ \E disp \in Displays :
         /\ width = disp[1] - 100
         /\ height = disp[2] - 100
    /\ coords = <<SeedAnchor(width, height)>>
    /\ count = 0
    /\ i = 0
    /\ coord = <<0, 0>>
    /\ pc = "start"

\* No call of chooseNext is under way.
ChooseIdle ==
    /\ lenPoints = 0
    /\ prevChoice = 0
    /\ rules = [r \in 0 .. 4 |-> FALSE]
    /\ override = FALSE
    /\ pointIndex = 0
    /\ cpc = "idle"

\* No Hex is under construction.
HexIdle ==
    /\ self_polyverts = <<>>
    /\ self_rules = [r \in 0 .. 4 |-> FALSE]
    /\ self_factor = 0
    /\ self_override = FALSE
    /\ self_prevChoice = 0
    /\ self_currentPoint = <<0, 0>>
    /\ self_points = <<>>
    /\ genI = 0
    /\ gpc = "idle"

\* The render loop is not running.
RenderIdle ==
    /\ numHexes = 0
    /\ currentHex = 0
    /\ itrs_left = 0
    /\ batchI = 0
    /\ self_pointIndex = <<>>
    /\ rpc = "idle"

\* The viewer loop is not running.
ViewIdle ==
    /\ Hex_r = 0
    /\ Hex_d = 0
    /\ walk_speed = 0
    /\ xshift = 0
    /\ yshift = 0
    /\ hex_xy = <<>>
    /\ surface = <<>>
    /\ vpc = "idle"

Init ==
    /\ PlaceInit
    /\ ChooseIdle
    /\ HexIdle
    /\ RenderIdle
    /\ ViewIdle

\* (a range that counts the seed among the drawn number of anchors)
InRangeCountingSeed == i < count - 1

\* i in range(count)
InRange == i < count

\* range(random.randint(7, 15)) is evaluated once, before the first iteration.
DrawCount ==
    /\ pc = "start"
    /\ count' \in MinCount .. MaxCount
    /\ pc' = "for"
    /\ UNCHANGED <<width, height, coords, i, coord>>
    /\ UNCHANGED <<chooseVars, hexVars, renderVars, viewVars>>

\* The head of an iteration: coord = chooseNextSpot(coords[-1]).
NextSpot ==
    /\ pc = "for"
    /\ InRange
    /\ \E k \in Directions : coord' = chooseNextSpot(PrevAnchor, k)
    /\ pc' = "while"
    /\ UNCHANGED <<width, height, coords, count, i>>
    /\ UNCHANGED <<chooseVars, hexVars, renderVars, viewVars>>

\* The range is exhausted.
LoopEnd ==
    /\ pc = "for"
    /\ ~InRange
    /\ pc' = "done"
    /\ UNCHANGED <<width, height, coords, count, i, coord>>
    /\ UNCHANGED <<chooseVars, hexVars, renderVars, viewVars>>

\* while True: found, so draw again from the same anchor.
Redraw ==
    /\ pc = "while"
    /\ Found(coords, coord)
    /\ \E k \in Directions : coord' = chooseNextSpot(PrevAnchor, k)
    /\ UNCHANGED <<width, height, coords, count, i, pc>>
    /\ UNCHANGED <<chooseVars, hexVars, renderVars, viewVars>>

\* not found: break, coords.append(coord), and the view test.
Place ==
    /\ pc = "while"
    /\ ~Found(coords, coord)
    /\ coords' = Append(coords, coord)
    /\ IF OutOfView(coord)
       THEN pc' = "done" /\ i' = i
       ELSE pc' = "for" /\ i' = i + 1
    /\ UNCHANGED <<width, height, count, coord>>
    /\ UNCHANGED <<chooseVars, hexVars, renderVars, viewVars>>

Next ==
    \/ DrawCount
    \/ NextSpot
    \/ LoopEnd
    \/ Redraw
    \/ Place

Spec == Init /\ [][Next]_vars

-----------------------------------------------------------------------------
(* chooseNext *)

\* The polygons of Hex.__init__: poly = random.randint(3, 8).
MinPoly == 3
MaxPoly == 8

\* How far outside 0 .. len(points) - 1 the prevChoice arguments of the model
\* reach, on either side.
PrevMargin == 2

\* random.randint(0, len(points) - 1)
Indices(n) == 0 .. n - 1

\* while pointIndex == forbidden: pointIndex = random.randint(...).  S holds the
\* values pointIndex may have when the loop is entered, the result those it may
\* have when the loop is left.
WhileEquals(S, forbidden, n) ==
    (S \ {forbidden}) \cup (IF forbidden \in S THEN Indices(n) \ {forbidden} ELSE {})

\* if prevChoice >= len(points): raise Exception("prevChoice out of range")
chooseNextRaises(n, prev) == prev >= n

\* The indices chooseNext(points, prevChoice, rules, override) may return, n
\* being len(points): the first draw, then the four loops in turn.
chooseNext(n, prev, rls, ovr) ==
    LET s0 == Indices(n)
        s1 == IF rls[0] THEN WhileEquals(s0, prev, n) ELSE s0
        s2 == IF rls[1] THEN WhileEquals(s1, (prev % n) + 1, n) ELSE s1
        s3 == IF rls[2] THEN WhileEquals(s2, (prev % n) + 2, n) ELSE s2
        s4 == IF rls[3] THEN WhileEquals(s3, (prev % n) + 3, n) ELSE s3
    IN  IF ovr THEN s0 ELSE s4

\* A call with any arguments: a polygon of 3 to 8 vertices, a prevChoice in or
\* near the polygon's indices, any rules, override or not.
ChooseInit ==
    /\ lenPoints \in MinPoly .. MaxPoly
    /\ prevChoice \in -PrevMargin .. lenPoints - 1 + PrevMargin
    /\ rules \in [0 .. 4 -> BOOLEAN]
    /\ override \in BOOLEAN
    /\ pointIndex = 0
    /\ cpc = "call"

\* The whole call: it raises, or returns one of the indices it may return.
Call ==
    /\ cpc = "call"
    /\ IF chooseNextRaises(lenPoints, prevChoice)
       THEN /\ cpc' = "raised"
            /\ pointIndex' = pointIndex
       ELSE /\ cpc' = "returned"
            /\ pointIndex' \in chooseNext(lenPoints, prevChoice, rules, override)
    /\ UNCHANGED <<lenPoints, prevChoice, rules, override>>
    /\ UNCHANGED <<placeVars, hexVars, renderVars, viewVars>>

\* The caller calls again with the index it got (Hex.genPoints, lines 125-129).
CallAgain ==
    /\ cpc = "returned"
    /\ prevChoice' = pointIndex
    /\ cpc' = "call"
    /\ UNCHANGED <<lenPoints, rules, override, pointIndex>>
    /\ UNCHANGED <<placeVars, hexVars, renderVars, viewVars>>

PlaceIdle ==
    /\ width = 0
    /\ height = 0
    /\ coords = <<>>
    /\ count = 0
    /\ i = 0
    /\ coord = <<0, 0>>
    /\ pc = "idle"

InitChooseNext ==
    /\ ChooseInit
    /\ PlaceIdle
    /\ HexIdle
    /\ RenderIdle
    /\ ViewIdle

NextChooseNext ==
    \/ Call
    \/ CallAgain

SpecChooseNext == InitChooseNext /\ [][NextChooseNext]_vars

-----------------------------------------------------------------------------
(* Properties of chooseNext *)

\* C1 as claimed: a call without override and with a valid prevChoice returns
\* an index that every enabled rule allows: rule k enabled implies the index
\* differs from (prevChoice + k) mod n, for k = 0, 1, 2, 3.
C1_ReturnSatisfiesEnabledRules ==
    (cpc = "returned" /\ ~override /\ prevChoice \in 0 .. lenPoints - 1) =>
        \A k \in 0 .. 3 : rules[k] => pointIndex # (prevChoice + k) % lenPoints

\* C5 as claimed: a call raises exactly when prevChoice is not an index of the
\* polygon, below 0 as well as at or above the vertex count.
C5_RaisesForEveryInvalidPrev ==
    cpc \in {"returned", "raised"} =>
        (cpc = "raised" <=> prevChoice \notin 0 .. lenPoints - 1)

-----------------------------------------------------------------------------
(* Hex.__init__, Hex.genPoints and jumppoint *)

\* The iterations of genPoints the model follows (self.itr is 5000).
MaxGenSteps == 2

RECURSIVE Pow2(_)
Pow2(n) == IF n = 0 THEN 1 ELSE 2 * Pow2(n - 1)

\* The points of a Hex are stored multiplied by PointUnit: 1/256 resolves the
\* vertices, and the factor 2^MaxGenSteps keeps MaxGenSteps halvings exact.
PointUnit == 256 * Pow2(MaxGenSteps)

\* factors, in thousandths: 3/2, the golden ratio, 2, e, 3, pi, 4, 5.
factors == {1500, 1618, 2000, 2718, 3000, 3142, 4000, 5000}

\* <<cos, sin>> of 2*pi/poly*i for i = 0 .. poly - 1, in 256ths (rounded).
CosSin256 ==
    [n \in MinPoly .. MaxPoly |->
        CASE n = 3 -> <<<<256, 0>>, <<-128, 222>>, <<-128, -222>>>>
          [] n = 4 -> <<<<256, 0>>, <<0, 256>>, <<-256, 0>>, <<0, -256>>>>
          [] n = 5 -> <<<<256, 0>>, <<79, 243>>, <<-207, 150>>, <<-207, -150>>,
                        <<79, -243>>>>
          [] n = 6 -> <<<<256, 0>>, <<128, 222>>, <<-128, 222>>, <<-256, 0>>,
                        <<-128, -222>>, <<128, -222>>>>
          [] n = 7 -> <<<<256, 0>>, <<160, 200>>, <<-57, 250>>, <<-231, 111>>,
                        <<-231, -111>>, <<-57, -250>>, <<160, -200>>>>
          [] n = 8 -> <<<<256, 0>>, <<181, 181>>, <<0, 256>>, <<-181, 181>>,
                        <<-256, 0>>, <<-181, -181>>, <<0, -256>>, <<181, -181>>>>]

\* The loop that fills self.polyverts: vertex i (stored at i + 1) is
\* (r + 50 + r*cos(2*pi/poly*i), r + 50 + r*sin(2*pi/poly*i)).
polyverts(poly) ==
    [v \in 1 .. poly |->
        <<(HexR + 50) * PointUnit + HexR * CosSin256[poly][v][1] * (PointUnit \div 256),
          (HexR + 50) * PointUnit + HexR * CosSin256[poly][v][2] * (PointUnit \div 256)>>]

\* (jumppoint without the override of the factor)
jumppointKeepsFactor(point1, point2, factor, ovr) ==
    <<point1[1] + Trunc((point2[1] - point1[1]) * 1000, factor),
      point1[2] + Trunc((point2[2] - point1[2]) * 1000, factor)>>

\* jumppoint(point1, point2, factor, override); factor is in thousandths, and
\* the quotient is cut to the resolution of the stored points.
jumppoint(point1, point2, factor, ovr) ==
    LET f == IF ovr THEN 2000 ELSE factor
    IN  <<point1[1] + Trunc((point2[1] - point1[1]) * 1000, f),
          point1[2] + Trunc((point2[2] - point1[2]) * 1000, f)>>

\* Hex(x, y, [randBool() for i in range(numRules)], random.choice(factors)) up
\* to the call of genPoints.
HexNew ==
    /\ gpc = "new"
    /\ self_rules' \in [0 .. 4 -> BOOLEAN]
    /\ self_factor' \in factors
    /\ \E poly \in MinPoly .. MaxPoly : self_polyverts' = polyverts(poly)
    /\ self_override' = (Len(self_polyverts') = 3)
    /\ self_prevChoice' = 0
    /\ self_currentPoint' = <<0, 0>>
    /\ self_points' = <<<<0, 0>>, <<0, 0>>>>
    /\ genI' = 0
    /\ gpc' = "gen"
    /\ UNCHANGED <<placeVars, chooseVars, renderVars, viewVars>>

\* One iteration of the loop of genPoints.
GenStep ==
    /\ gpc = "gen"
    /\ genI < MaxGenSteps
    /\ IF chooseNextRaises(Len(self_polyverts), self_prevChoice)
       THEN /\ gpc' = "raised"
            /\ UNCHANGED <<self_points, self_currentPoint, self_prevChoice, genI>>
       ELSE \E newVert \in chooseNext(Len(self_polyverts), self_prevChoice,
                                      self_rules, self_override) :
              LET pnt == jumppoint(self_polyverts[newVert + 1], self_currentPoint,
                                   self_factor, self_override)
              IN  /\ self_points' = Append(self_points, pnt)
                  /\ self_currentPoint' = pnt
                  /\ self_prevChoice' = newVert
                  /\ genI' = genI + 1
                  /\ gpc' = gpc
    /\ UNCHANGED <<self_polyverts, self_rules, self_factor, self_override>>
    /\ UNCHANGED <<placeVars, chooseVars, renderVars, viewVars>>

InitGenPoints ==
    /\ PlaceIdle
    /\ ChooseIdle
    /\ RenderIdle
    /\ ViewIdle
    /\ self_polyverts = <<>>
    /\ self_rules = [r \in 0 .. 4 |-> FALSE]
    /\ self_factor = 0
    /\ self_override = FALSE
    /\ self_prevChoice = 0
    /\ self_currentPoint = <<0, 0>>
    /\ self_points = <<>>
    /\ genI = 0
    /\ gpc = "new"

NextGenPoints ==
    \/ HexNew
    \/ GenStep

SpecGenPoints == InitGenPoints /\ [][NextGenPoints]_vars

-----------------------------------------------------------------------------
(* Properties of genPoints *)

\* C6: in a Hex whose inner polygon has 3 vertices override is set; whatever
\* the rules and the factor, the next vertex may be any of the 3 indices (the
\* previous choice included), and every generated point is exactly the midpoint
\* of the point before it and the chosen vertex.
C6_TriangleBypassesRulesAndFactor ==
    (gpc = "gen" /\ Len(self_polyverts) = 3) =>
        /\ self_override
        /\ chooseNext(3, self_prevChoice, self_rules, self_override) = 0 .. 2
        /\ \A j \in 3 .. Len(self_points) :
             \E v \in 1 .. 3 :
                /\ 2 * self_points[j][1] = self_points[j - 1][1] + self_polyverts[v][1]
                /\ 2 * self_points[j][2] = self_points[j - 1][2] + self_polyverts[v][2]
        /\ Len(self_points) > 2 =>
             /\ 2 * self_currentPoint[1] =
                  self_points[Len(self_points) - 1][1]
                  + self_polyverts[self_prevChoice + 1][1]
             /\ 2 * self_currentPoint[2] =
                  self_points[Len(self_points) - 1][2]
                  + self_polyverts[self_prevChoice + 1][2]

\* C6 witness: a triangle with rules 0 to 3 all enabled and the factor pi, whose
\* two steps both chose vertex 1.
C6_Witness ==
    /\ gpc = "gen"
    /\ Len(self_polyverts) = 3
    /\ \A k \in 0 .. 3 : self_rules[k]
    /\ self_factor = 3142
    /\ Len(self_points) = 4
    /\ self_prevChoice = 1
    /\ 2 * self_points[3][1] = self_polyverts[2][1]
    /\ 2 * self_points[3][2] = self_polyverts[2][2]

-----------------------------------------------------------------------------
(* The render loop and Hex.drawNext *)

\* self.itr, dots_per_poly and dots_per_itr.
itr == 5000
dots_per_poly == 5000
dots_per_itr == 1000

\* The largest len(hexes) the model renders (the placement loop leaves between
\* 2 and MaxCount + 1 anchors).
MaxHexes == 3

\* len(self.points) once genPoints has run: the two points of __init__ and one
\* point for each of the itr iterations.
lenSelfPoints == 2 + itr

\* (a batch test that lets a batch start with nothing left)
BatchLeftOrZero == itrs_left >= 0

\* if itrs_left > 0
BatchLeft == itrs_left > 0

\* hexes, currentHex = 0, itrs_left = dots_per_poly: the state at line 230.
RenderInit ==
    /\ numHexes \in 2 .. MaxHexes
    /\ currentHex = 0
    /\ itrs_left = dots_per_poly
    /\ batchI = 0
    /\ self_pointIndex = [h \in 1 .. numHexes |-> 0]
    /\ rpc = "while"

\* pygame.QUIT at the head of an iteration: sys.exit().
RenderQuit ==
    /\ rpc = "while"
    /\ currentHex < numHexes
    /\ rpc' = "exit"
    /\ UNCHANGED <<numHexes, currentHex, itrs_left, batchI, self_pointIndex>>
    /\ UNCHANGED <<placeVars, chooseVars, hexVars, viewVars>>

\* if itrs_left > 0: the for loop of the batch starts.
BatchStart ==
    /\ rpc = "while"
    /\ currentHex < numHexes
    /\ BatchLeft
    /\ batchI' = 0
    /\ rpc' = "batch"
    /\ UNCHANGED <<numHexes, currentHex, itrs_left, self_pointIndex>>
    /\ UNCHANGED <<placeVars, chooseVars, hexVars, viewVars>>

\* hexes[currentHex].drawNext(...): self.points[self.pointIndex] raises
\* IndexError past the end of the list; otherwise pointIndex += 1.
drawNext ==
    /\ rpc = "batch"
    /\ batchI < dots_per_itr
    /\ IF self_pointIndex[currentHex + 1] >= lenSelfPoints
       THEN /\ rpc' = "IndexError"
            /\ UNCHANGED <<self_pointIndex, batchI>>
       ELSE /\ self_pointIndex' =
                 [self_pointIndex EXCEPT ![currentHex + 1] = @ + 1]
            /\ batchI' = batchI + 1
            /\ rpc' = rpc
    /\ UNCHANGED <<numHexes, currentHex, itrs_left>>
    /\ UNCHANGED <<placeVars, chooseVars, hexVars, viewVars>>

\* The batch is drawn: itrs_left -= dots_per_itr, and the frame is saved.
BatchEnd ==
    /\ rpc = "batch"
    /\ batchI >= dots_per_itr
    /\ itrs_left' = itrs_left - dots_per_itr
    /\ rpc' = "while"
    /\ UNCHANGED <<numHexes, currentHex, batchI, self_pointIndex>>
    /\ UNCHANGED <<placeVars, chooseVars, hexVars, viewVars>>

\* else: currentHex += 1; itrs_left = dots_per_poly
NextHex ==
    /\ rpc = "while"
    /\ currentHex < numHexes
    /\ ~BatchLeft
    /\ currentHex' = currentHex + 1
    /\ itrs_left' = dots_per_poly
    /\ UNCHANGED <<numHexes, batchI, self_pointIndex, rpc>>
    /\ UNCHANGED <<placeVars, chooseVars, hexVars, viewVars>>

\* while currentHex < len(hexes) is false.
RenderEnd ==
    /\ rpc = "while"
    /\ currentHex >= numHexes
    /\ rpc' = "done"
    /\ UNCHANGED <<numHexes, currentHex, itrs_left, batchI, self_pointIndex>>
    /\ UNCHANGED <<placeVars, chooseVars, hexVars, viewVars>>

InitRender ==
    /\ PlaceIdle
    /\ ChooseIdle
    /\ HexIdle
    /\ RenderInit
    /\ ViewIdle

NextRender ==
    \/ RenderQuit
    \/ BatchStart
    \/ drawNext
    \/ BatchEnd
    \/ NextHex
    \/ RenderEnd

SpecRender == InitRender /\ [][NextRender]_vars

-----------------------------------------------------------------------------
(* Properties of the render loop *)

\* C8: drawNext is never called past the end of a point list: every cursor is
\* at most 5000 < len(points) = 5002.  Hexes are drawn in list order, each in 5
\* batches of 1000 calls: the hexes before currentHex have their cursor at
\* 5000, those after it at 0, and the loop ends with every cursor at 5000.
C8_DrawNextStaysInsidePoints ==
    /\ rpc # "IndexError"
    /\ lenSelfPoints = 5002
    /\ \A h \in 1 .. numHexes :
         /\ self_pointIndex[h] <= 5000
         /\ self_pointIndex[h] < lenSelfPoints
         /\ h < currentHex + 1 => self_pointIndex[h] = 5000
         /\ h > currentHex + 1 => self_pointIndex[h] = 0
    /\ itrs_left \in {0, 1000, 2000, 3000, 4000, 5000}
    /\ currentHex < numHexes =>
         self_pointIndex[currentHex + 1] =
            5000 - itrs_left + (IF rpc = "batch" THEN batchI ELSE 0)
    /\ rpc = "done" => \A h \in 1 .. numHexes : self_pointIndex[h] = 5000

\* C8 witness: the loop has ended after drawing every hex, and there were at
\* least two of them.
C8_Witness ==
    /\ rpc = "done"
    /\ numHexes >= 2
    /\ \A h \in 1 .. numHexes : self_pointIndex[h] = 5000

-----------------------------------------------------------------------------
(* The viewer loop *)

\* How many times the radius may be doubled, or halved, from its initial value
\* in the model.
MaxZoom == 2

\* The largest pan, in pixels, the model follows in each direction.
MaxPan == 4

\* The viewer's numbers are stored multiplied by ViewUnit, which keeps
\* MaxZoom halvings of a multiple of 1/2 exact.
ViewUnit == Pow2(MaxZoom + 1)

\* The keys the loop reads from pygame.key.get_pressed().
Keys == {"UP", "DOWN", "LEFT", "RIGHT", "SPACE", "0"}

\* hexes = [Hex(j[0], j[1], ...) for j in coords] after a placement that ended
\* on its first anchor, walk_speed = 2, xshift = yshift = 0.
ViewInit ==
    /\ \E disp \in Displays :
         /\ width = disp[1] - 100
         /\ height = disp[2] - 100
    /\ \E k \in Directions :
         coords = <<SeedAnchor(width, height),
                    chooseNextSpot(SeedAnchor(width, height), k)>>
    /\ OutOfView(coords[2])
    /\ count = MinCount
    /\ i = 0
    /\ coord = coords[2]
    /\ pc = "done"
    /\ Hex_r = HexR * ViewUnit
    /\ Hex_d = HexD * ViewUnit
    /\ walk_speed = 2 * ViewUnit
    /\ xshift = 0
    /\ yshift = 0
    /\ hex_xy = [h \in 1 .. Len(coords) |->
                   <<coords[h][1] * (ViewUnit \div Scale),
                     coords[h][2] * (ViewUnit \div Scale)>>]
    /\ surface = [h \in 1 .. Len(coords) |-> 4 * HexR * ViewUnit]
    /\ vpc = "while"

\* One iteration of while True with the keys pressed: the four pans, then the
\* doubling of K_SPACE, then the halving of K_0.  The model follows the zoom
\* between 2^-MaxZoom and 2^MaxZoom and the shifts up to MaxPan.
Frame ==
    /\ vpc = "while"
    /\ \E keys \in SUBSET Keys :
         LET ys == yshift + (IF "UP" \in keys THEN walk_speed ELSE 0)
                          - (IF "DOWN" \in keys THEN walk_speed ELSE 0)
             xs == xshift + (IF "LEFT" \in keys THEN walk_speed ELSE 0)
                          - (IF "RIGHT" \in keys THEN walk_speed ELSE 0)
             dbl == "SPACE" \in keys
             hlv == "0" \in keys
             r1 == IF dbl THEN Hex_r * 2 ELSE Hex_r
             d1 == IF dbl THEN Hex_d * 2 ELSE Hex_d
             w1 == IF dbl THEN walk_speed * 2 ELSE walk_speed
             xy1 == IF dbl
                    THEN [h \in DOMAIN hex_xy |-> <<hex_xy[h][1] * 2, hex_xy[h][2] * 2>>]
                    ELSE hex_xy
             sf1 == IF dbl THEN [h \in DOMAIN surface |-> 4 * r1] ELSE surface
             r2 == IF hlv THEN r1 \div 2 ELSE r1
             d2 == IF hlv THEN d1 \div 2 ELSE d1
             w2 == IF hlv THEN w1 \div 2 ELSE w1
             xy2 == IF hlv
                    THEN [h \in DOMAIN xy1 |-> <<xy1[h][1] \div 2, xy1[h][2] \div 2>>]
                    ELSE xy1
             \* (int(0.5*Hex.r), int(0.5*Hex.r)), Hex.r being halved already
             sf2 == IF hlv
                    THEN [h \in DOMAIN sf1 |-> Trunc(r2, 2 * ViewUnit) * ViewUnit]
                    ELSE sf1
         IN  /\ Abs(xs) <= MaxPan * ViewUnit
             /\ Abs(ys) <= MaxPan * ViewUnit
             /\ r1 <= HexR * ViewUnit * Pow2(MaxZoom)
             /\ r2 * Pow2(MaxZoom) >= HexR * ViewUnit
             /\ xshift' = xs
             /\ yshift' = ys
             /\ Hex_r' = r2
             /\ Hex_d' = d2
             /\ walk_speed' = w2
             /\ hex_xy' = xy2
             /\ surface' = sf2
    /\ vpc' = vpc
    /\ UNCHANGED <<placeVars, chooseVars, hexVars, renderVars>>

\* pygame.QUIT at the end of an iteration: sys.exit().
ViewQuit ==
    /\ vpc = "while"
    /\ vpc' = "exit"
    /\ UNCHANGED <<Hex_r, Hex_d, walk_speed, xshift, yshift, hex_xy, surface>>
    /\ UNCHANGED <<placeVars, chooseVars, hexVars, renderVars>>

InitViewer ==
    /\ ViewInit
    /\ ChooseIdle
    /\ HexIdle
    /\ RenderIdle

NextViewer ==
    \/ Frame
    \/ ViewQuit

SpecViewer == InitViewer /\ [][NextViewer]_vars

-----------------------------------------------------------------------------
(* Properties of the viewer loop *)

\* C10 as claimed: after any sequence of doubling and halving key presses the
\* side of every cell's canvas is 4 * Hex.r.
C10_CanvasSideIsFourTimesRadius ==
    vpc \in {"while", "exit"} =>
        \A h \in DOMAIN surface : surface[h] = 4 * Hex_r

-----------------------------------------------------------------------------
(* Properties of the placement loop *)

\* The view rectangle [0, width] x [0, height].
InView(c) ==
    /\ 0 <= c[1] /\ c[1] <= width * Scale
    /\ 0 <= c[2] /\ c[2] <= height * Scale

\* The squared Euclidean distance of two stored anchors (in Scale^2 units).
Dist2(a, b) == (b[1] - a[1]) * (b[1] - a[1]) + (b[2] - a[2]) * (b[2] - a[2])

\* C2: at every point of the placement loop and in the final list, no two
\* distinct anchors are closer than 10 in x and closer than 10 in y.
C2_NoTwoAnchorsCollide ==
    \A a, b \in 1 .. Len(coords) :
        a # b =>
            ~(/\ Abs(coords[a][1] - coords[b][1]) < 10 * Scale
              /\ Abs(coords[a][2] - coords[b][2]) < 10 * Scale)

\* C2 witness: with eight or more anchors placed, a candidate that collides
\* with a placed anchor is being rejected.
C2_Witness ==
    /\ pc = "while"
    /\ Len(coords) >= 8
    /\ \E j \in 1 .. Len(coords) :
         /\ Abs(coords[j][1] - coord[1]) < 10 * Scale
         /\ Abs(coords[j][2] - coord[2]) < 10 * Scale

\* C3 as claimed: consecutive anchors are exactly Hex.d = 250 apart.
C3_ConsecutiveExactlyDiameter ==
    \A j \in 1 .. Len(coords) - 1 :
        Dist2(coords[j], coords[j + 1]) = (HexD * Scale) * (HexD * Scale)

\* C3 amended: each anchor after the seed is the earlier anchor plus 250 times
\* one of the six direction vectors with both coordinates truncated by int():
\* each coordinate of the step is within 1 of the exact step, and the distance
\* between consecutive anchors is within 2 of 250.
C3_ConsecutiveTruncatedStep ==
    \A j \in 1 .. Len(coords) - 1 :
        /\ \E k \in Directions :
             /\ Abs((coords[j + 1][1] - coords[j][1]) * (1000 \div Scale)
                    - Offset[k].x.milli) <= 1000
             /\ Abs((coords[j + 1][2] - coords[j][2]) * (1000 \div Scale)
                    - Offset[k].y.milli) <= 1000
        /\ Dist2(coords[j], coords[j + 1]) > (248 * Scale) * (248 * Scale)
        /\ Dist2(coords[j], coords[j + 1]) < (252 * Scale) * (252 * Scale)

\* C3 witness: two consecutive placed anchors, neither the seed, that are not
\* 250 apart.
C3_Witness ==
    \E j \in 2 .. Len(coords) - 1 :
        Dist2(coords[j], coords[j + 1]) # (HexD * Scale) * (HexD * Scale)

\* C4 as claimed: the drawn count is the total number of anchors, the seed
\* included, so the list never holds more than count anchors.
C4_CountIsTotal == pc # "start" => Len(coords) <= count

\* C4 amended: the drawn count is the number of anchors placed after the seed.
\* The list starts with the seed and holds at most count + 1 anchors; a loop
\* that ends holds exactly count + 1 of them unless the last one left the view.
C4_CountIsAdditional ==
    /\ coords[1] = SeedAnchor(width, height)
    /\ pc # "start" => Len(coords) <= count + 1
    /\ pc \in {"for", "while"} => Len(coords) = i + 1
    /\ pc = "done" => \/ Len(coords) = count + 1
                      \/ Len(coords) >= 2 /\ ~InView(coords[Len(coords)])

\* C4 witness: the loop ran all its iterations inside the view.
C4_Witness ==
    /\ pc = "done"
    /\ i = count
    /\ Len(coords) = count + 1
    /\ InView(coords[Len(coords)])

\* C7 as claimed: whenever an iteration of the placement loop is under way and
\* every placed anchor is inside the view, one of the six directions from the
\* latest anchor gives a candidate that collides with no placed anchor, so the
\* redraw loop can exit.
C7_RedrawCanExit ==
    (/\ pc \in {"for", "while"}
     /\ i < count
     /\ \A j \in 1 .. Len(coords) : InView(coords[j])) =>
        \E k \in Directions : ~Found(coords, chooseNextSpot(PrevAnchor, k))

\* C9: when the seed is inside the view, only the last anchor of the list can
\* be outside it, and nothing is appended after such an anchor.
C9_OnlyLastOutOfView ==
    InView(coords[1]) =>
        /\ \A j \in 1 .. Len(coords) - 1 : InView(coords[j])
        /\ ~InView(coords[Len(coords)]) => pc = "done"

\* C9 witness: the loop has ended on an anchor outside the view, after several
\* anchors inside it.
C9_Witness ==
    /\ pc = "done"
    /\ InView(coords[1])
    /\ Len(coords) >= 4
    /\ ~InView(coords[Len(coords)])
    /\ i < count

=============================================================================
